---- MODULE Spec2Model ----
(***************************************************************************)
(* State-machine model of installers.py: the provisioning operations       *)
(* (pre_install, the installers, install_not_ppkd_prog, cleanup), the      *)
(* command runner comm and the apt warning classifier car_apt_warning.     *)
(*                                                                         *)
(* Texts (stdout, stderr) are sequences of characters over a small         *)
(* alphabet, LF being the line separator.  Commands, package names and     *)
(* messages are sequences of words.                                        *)
(***************************************************************************)
EXTENDS Integers, Sequences, FiniteSets, TLC

\* ------------------------------------------------------------------ bounds
\* longest stderr text handed to the classifier in SpecClassifier
MaxTextLen == 4
\* number of top-level operation calls the caller makes
MaxCalls == 3

\* ------------------------------------------------------------------- texts
LF == "LF"
\* "W" and "aa" are on the allow-list; "E" (and a lone "a") are not
Alphabet == {"W", "a", "E", LF}

RECURSIVE TextsOfLen(_)
TextsOfLen(n) ==
  IF n = 0 THEN {<<>>}
  ELSE {Append(t, c) : t \in TextsOfLen(n - 1), c \in Alphabet}

Texts == UNION {TextsOfLen(n) : n \in 0..MaxTextLen}

\* Python `p in s` on strings: p occurs in s as a contiguous substring
str_in(p, s) ==
  \E i \in 1..(Len(s) - Len(p) + 1) : SubSeq(s, i, i + Len(p) - 1) = p

\* the text's lines: LF ends a line, a final LF opens no further line
RECURSIVE splitlines(_)
splitlines(s) ==
  IF s = <<>> THEN <<>>
  ELSE IF \E i \in 1..Len(s) : s[i] = LF
       THEN LET i == CHOOSE j \in 1..Len(s) :
                       s[j] = LF /\ \A h \in 1..(j - 1) : s[h] # LF
            IN <<SubSeq(s, 1, i - 1)>> \o splitlines(SubSeq(s, i + 1, Len(s)))
       ELSE <<s>>

\* ------------------------------------------------------- warning classifier
\* the fixed allow-list of benign substrings
BenignList == << <<"W">>, <<"a", "a">> >>

\* classifier: empty when every line holds a benign substring, else the text
car_apt_warning(errs) ==
  LET lines == splitlines(errs)
      benign(l) == \E n \in DOMAIN BenignList : str_in(BenignList[n], l)
  IN IF \A n \in DOMAIN lines : benign(lines[n]) THEN <<>> ELSE errs

\* ----------------------------------------------------------- command runner
\* comm variant that rejects a non-zero exit code
comm_check(proc) ==
  IF proc.completed /\ proc.code = 0
  THEN [exc |-> "none", ret |-> <<proc.out, proc.errs>>]
  ELSE [exc |-> "TimeoutError", ret |-> <<>>]

\* comm: (stdout, stderr) of a process that completes in time, whatever its
\* exit code; a TimeoutError otherwise
comm(proc) ==
  IF proc.completed
  THEN [exc |-> "none", ret |-> <<proc.out, proc.errs>>]
  ELSE [exc |-> "TimeoutError", ret |-> <<>>]

\* ------------------------------------------------------------ package lists
list_apt_pkgs ==
  <<"build-essential", "python3-dev", "pkg-config", "apt-transport-https",
    "cmake", "curl", "ca-certificates", "gnupg", "lsb-release", "htop",
    "mmv", "neovim", "tmux">>

list_snap_pkgs ==
  << <<"bitwarden">>, <<"jdownloader2">>, <<"libreoffice">>,
     <<"signal-desktop">>, <<"spotify">>, <<"vlc">>,
     <<"sublime-text", " ", "--classic">>, <<"code", " ", "--classic">> >>

\* install_snap_pkgs order with the two groups swapped
SnapInstallOrder_unflagged_first ==
  LET flag == <<"--classic">>
      flagged(pkg) == str_in(flag, pkg)
      unflagged(pkg) == ~ str_in(flag, pkg)
  IN SelectSeq(list_snap_pkgs, unflagged) \o SelectSeq(list_snap_pkgs, flagged)

\* install_snap_pkgs: flg_pkgs are installed first, then unflg_pkgs
SnapInstallOrder ==
  LET flag == <<"--classic">>
      flagged(pkg) == str_in(flag, pkg)
      unflagged(pkg) == ~ str_in(flag, pkg)
  IN SelectSeq(list_snap_pkgs, flagged) \o SelectSeq(list_snap_pkgs, unflagged)

\* ------------------------------------------------------ command sequences
DOWNLOADS_PATH == "inst_downloads"

\* one command of an operation: the words of the shell command, whether its
\* stderr goes through the classifier ("apt") or not ("plain"), and the
\* message of the InstallationError raised when it fails
Step(c, kd, m) == [cmd |-> c, kind |-> kd, msg |-> m]

pre_install_cmds ==
  << Step(<<"mkdir", DOWNLOADS_PATH>>, "plain",
          <<"Failed pre-installation procedure.">>) >>

install_apt_pkgs_cmds ==
  [n \in DOMAIN list_apt_pkgs |->
     Step(<<"apt install -y", list_apt_pkgs[n]>>, "apt",
          <<"Failed to install", list_apt_pkgs[n]>>)]

install_snap_pkgs_cmds ==
  [n \in DOMAIN SnapInstallOrder |->
     Step(<<"snap install", " ">> \o SnapInstallOrder[n], "plain",
          <<"Failed to install">> \o SnapInstallOrder[n])]

install_brave_browser_cmds ==
  << Step(<<"curl", "brave-browser-archive-keyring.gpg">>, "plain",
          <<"Failed to add Brave Browser's fingerprint.">>),
     Step(<<"echo", "|", "tee", "brave-browser-release.list">>, "plain",
          <<"Failed to add Brave Browser's ppa.">>),
     Step(<<"apt update -y", "&&", "apt install -y", "brave-browser">>, "apt",
          <<"Failed to install Brave Browser's apt package.">>) >>

docker_pkgs == <<"docker-ce", "docker-ce-cli", "containerd.io">>

install_docker_cmds ==
  << Step(<<"curl", "|", "gpg --dearmor", "docker-archive-keyring.gpg">>,
          "plain", <<"Failed to add Docker's fingerprint.">>),
     Step(<<"echo", "|", "tee", "docker.list">>, "plain",
          <<"Failed to add Docker's ppa.">>),
     Step(<<"apt update -y">>, "apt",
          <<"Failed to install Docker apt packages.">>) >>
  \o [n \in DOMAIN docker_pkgs |->
        Step(<<"apt install -y", docker_pkgs[n]>>, "apt",
             <<"Failed to install Docker", docker_pkgs[n]>>)]
  \o << Step(<<"usermod -aG docker $USER">>, "plain",
             <<"Failed to add user to docker group.">>) >>

install_fish_shell_cmds ==
  << Step(<<"apt-add-repository", "ppa:fish-shell/release-3", "-y">>, "plain",
          <<"Failed to add Fish's ppa.">>),
     Step(<<"apt update -y", "&&", "apt install -y", "fish">>, "apt",
          <<"Failed to install Fish shell.">>) >>

install_google_chrome_cmds ==
  << Step(<<"cd", DOWNLOADS_PATH, "&&", "curl -sO",
            "google-chrome-stable_current_amd64.deb">>, "plain",
          <<"Failed to download Google Chrome's .deb file.">>),
     Step(<<"cd", DOWNLOADS_PATH, "&&", "apt install -y",
            "google-chrome-stable_current_amd64.deb">>, "apt",
          <<"Failed to install Google Chrome from .deb file.">>) >>

install_poetry_cmds ==
  << Step(<<"curl", "get-poetry.py", "|", "python">>, "plain",
          <<"Poetry was not installed.">>) >>

install_qbittorrent_cmds ==
  << Step(<<"add-apt-repository", "ppa:qbittorrent-team/qbittorrent-stable",
            "-y">>, "plain", <<"Failed to add qbittorrent ppa.">>),
     Step(<<"apt update -y", "&&", "apt install", "qbittorrent", "-y">>, "apt",
          <<"Failed to install qbittorrent.">>) >>

cleanup_cmds ==
  << Step(<<"rm -r", DOWNLOADS_PATH>>, "plain", <<>>),
     Step(<<"apt autoclean", "&&", "apt clean">>, "apt", <<>>) >>

Installers ==
  {"install_apt_pkgs", "install_snap_pkgs", "install_brave_browser",
   "install_docker", "install_fish_shell", "install_google_chrome",
   "install_poetry", "install_qbittorrent"}

LeafOps == {"pre_install", "cleanup"} \cup Installers

Cmds(o) ==
  CASE o = "pre_install" -> pre_install_cmds
    [] o = "install_apt_pkgs" -> install_apt_pkgs_cmds
    [] o = "install_snap_pkgs" -> install_snap_pkgs_cmds
    [] o = "install_brave_browser" -> install_brave_browser_cmds
    [] o = "install_docker" -> install_docker_cmds
    [] o = "install_fish_shell" -> install_fish_shell_cmds
    [] o = "install_google_chrome" -> install_google_chrome_cmds
    [] o = "install_poetry" -> install_poetry_cmds
    [] o = "install_qbittorrent" -> install_qbittorrent_cmds
    [] o = "cleanup" -> cleanup_cmds

\* the check after a command, reading the wrong stream of the pair
IsFailure_reads_stdout(kind, ret) ==
  LET errs_ == ret[1]
  IN IF kind = "apt"
     THEN errs_ # <<>> /\ car_apt_warning(errs_) # <<>>
     ELSE errs_ # <<>>

\* the check after an apt command, without the classifier
IsFailure_no_classifier(kind, ret) ==
  LET errs_ == ret[2]
  IN errs_ # <<>>

\* the check after an apt command, dropping the classifier's verdict
IsFailure_apt_ignored(kind, ret) ==
  LET errs_ == ret[2]
  IN IF kind = "apt" THEN FALSE ELSE errs_ # <<>>

\* the check after a command: `_, errs = comm(cmd); if errs:` and, for an
\* apt command, `if errs_: errs = car_apt_warning(errs_); if errs:`
IsFailure(kind, ret) ==
  LET errs_ == ret[2]
  IN IF kind = "apt"
     THEN errs_ # <<>> /\ car_apt_warning(errs_) # <<>>
     ELSE errs_ # <<>>

\* what an operation does once the check finds a failure, with pre_install
\* going on regardless
OnFailure_pre_install_continues(o) ==
  CASE o = "pre_install" -> "continue"
    [] o = "cleanup" -> "return_false"
    [] o = "install_poetry" -> "continue"
    [] OTHER -> "raise"

\* what an operation does once the check finds a failure: cleanup returns
\* False, install_poetry builds the InstallationError without raising it and
\* goes on, every other operation raises it
OnFailure(o) ==
  CASE o = "cleanup" -> "return_false"
    [] o = "install_poetry" -> "continue"
    [] OTHER -> "raise"

\* install_not_ppkd_prog: the installer called in each of its six try blocks
NppCalls ==
  <<"install_brave_browser", "install_docker", "install_fish_shell",
    "install_google_chrome", "install_poetry", "install_poetry">>

\* the program each try block announces ("Installing X...")
NppPrograms ==
  <<"Brave Browser", "Docker", "Fish shell", "Google Chrome", "Poetry",
    "qbittorrent">>

\* the InstallationError message of each except clause
NppMsgs ==
  << <<"Brave browser was not installed">>, <<"Docker was not installed.">>,
     <<"Fish shell was not installed.">>, <<"Google Chrome was not installed.">>,
     <<"Poetry was not installed.">>, <<"qbittorrent was not installed.">> >>

\* the exceptions the except clauses catch
NppCaught == {"InstallationError", "TimeoutExpired"}

\* ------------------------------------------------------------ environment
\* what the subordinate shell process can do: the texts it can write
StderrSamples ==
  {<<>>, <<"W">>, <<"E">>, <<"W", LF, "E">>, <<"a", "a", LF, "W">>}

StdoutSamples == {<<>>, <<"E">>}

ExitCodes == {0, 1}

\* a process that completes in time, and one that is still running at the
\* timeout
Completed ==
  [completed : {TRUE}, code : ExitCodes, out : StdoutSamples,
   errs : StderrSamples]

TimedOut == [completed |-> FALSE, code |-> -1, out |-> <<>>, errs |-> <<>>]

\* the outcomes of running command c when the downloads directory exists
\* (d) or not: the process and the directory's existence afterwards.
\* mkdir fails with a message on an existing directory, rm -r and cd fail
\* with a message on a missing one; a command that writes a message because
\* it failed leaves the directory as it was.
Shell(c, d) ==
  CASE c.cmd[1] = "mkdir" ->
         {[proc |-> p, dir |-> TRUE] :
            p \in {q \in Completed : q.errs = <<"E">> /\ q.code = 1 /\ d}}
         \cup {[proc |-> p, dir |-> TRUE] :
            p \in {q \in Completed : q.errs = <<>> /\ q.code = 0 /\ ~d}}
         \cup {[proc |-> p, dir |-> FALSE] :
            p \in {q \in Completed : q.errs = <<"E">> /\ q.code = 1 /\ ~d}}
         \cup {[proc |-> TimedOut, dir |-> b] : b \in {d, TRUE}}
    [] c.cmd[1] = "rm -r" ->
         {[proc |-> p, dir |-> FALSE] :
            p \in {q \in Completed : q.errs = <<"E">> /\ q.code = 1 /\ ~d}}
         \cup {[proc |-> p, dir |-> FALSE] :
            p \in {q \in Completed : q.errs = <<>> /\ q.code = 0 /\ d}}
         \cup {[proc |-> p, dir |-> TRUE] :
            p \in {q \in Completed : q.errs = <<"E">> /\ q.code = 1 /\ d}}
         \cup {[proc |-> TimedOut, dir |-> b] : b \in {d, FALSE}}
    [] c.cmd[1] = "cd" ->
         {[proc |-> p, dir |-> d] :
            p \in {q \in Completed : d \/ (q.errs = <<"E">> /\ q.code = 1)}}
         \cup {[proc |-> TimedOut, dir |-> d]}
    [] OTHER ->
         {[proc |-> p, dir |-> d] : p \in Completed \cup {TimedOut}}

\* ------------------------------------------------------------------- state
VARIABLES
  dir,        \* the downloads directory exists
  calls,      \* top-level operations called so far
  op,         \* the leaf operation in progress, "none" between operations
  k,          \* commands the operation in progress has run
  executed,   \* the commands run by the current or last leaf operation
  slot,       \* try block of install_not_ppkd_prog in progress, 0 outside it
  started,    \* installers the current or last install_not_ppkd_prog called
  console,    \* programs whose "Successfully installed X." it printed
  last,       \* the last invocation of comm and the check that followed it
  res,        \* how the current or last leaf operation stands
  ret,        \* how the current or last top-level operation stands
  dirAtStart, \* dir when the current or last top-level operation began
  run,        \* "prepared" since pre_install returned True, "aborted" once an
              \* installer raised InstallationError after that, "none" at
              \* first and since cleanup was called
  text,       \* classifier input (SpecClassifier)
  cls         \* classifier output and the apt check on it (SpecClassifier)

vars ==
  <<dir, calls, op, k, executed, slot, started, console, last, res, ret,
    dirAtStart, run, text, cls>>

mainVars ==
  <<dir, calls, op, k, executed, slot, started, console, last, res, ret,
    dirAtStart, run>>

NoInvocation ==
  [op |-> "none", k |-> 0, cmd |-> <<>>, kind |-> "none", proc |-> TimedOut,
   exc |-> "none", ret |-> <<>>, failed |-> FALSE]

NoResult == [op |-> "none", status |-> "none", msg |-> <<>>, slot |-> 0]

NoClassification == [done |-> FALSE, result |-> <<>>, failed |-> FALSE]

Init ==
  /\ dir = FALSE
  /\ calls = 0
  /\ op = "none"
  /\ k = 0
  /\ executed = <<>>
  /\ slot = 0
  /\ started = <<>>
  /\ console = <<>>
  /\ last = NoInvocation
  /\ res = NoResult
  /\ ret = NoResult
  /\ dirAtStart = FALSE
  /\ run = "none"
  /\ text = <<>>
  /\ cls = NoClassification

\* ----------------------------------------------------------------- actions
\* One command of leaf operation o: the operation is entered (by the caller,
\* or by the try block of install_not_ppkd_prog that is due) or resumed, its
\* next command is run through comm, the check follows, and the operation
\* raises, returns or goes on to its next command.  When the operation ends
\* inside install_not_ppkd_prog, the try block's except clause or the code
\* after it runs as well.
Run(o) ==
  /\ \/ op = o
     \/ /\ op = "none"
        /\ \/ slot = 0 /\ calls < MaxCalls
           \/ slot > 0 /\ NppCalls[slot] = o
  /\ LET k0 == IF op = o THEN k ELSE 0
         c == Cmds(o)[k0 + 1]
         entered == k0 = 0 /\ slot = 0
     IN \E sh \in Shell(c, dir) :
          LET r == comm(sh.proc)
              f == r.exc = "none" /\ IsFailure(c.kind, r.ret)
              status ==
                IF r.exc # "none" THEN r.exc
                ELSE IF f /\ OnFailure(o) = "raise" THEN "InstallationError"
                ELSE IF f /\ OnFailure(o) = "return_false" THEN "False"
                ELSE IF k0 + 1 = Len(Cmds(o)) THEN "True"
                ELSE "running"
              msg == IF status = "InstallationError" THEN c.msg ELSE <<>>
              r1 == [op |-> o, status |-> status, msg |-> msg, slot |-> slot]
              npp(st, m) ==
                [op |-> "install_not_ppkd_prog", status |-> st, msg |-> m,
                 slot |-> 0]
              r0 == IF slot = 0 THEN r1
                    ELSE IF status = "running" THEN ret
                    ELSE IF status \in {"True", "False"}
                    THEN IF slot = Len(NppCalls) THEN npp("True", <<>>) ELSE ret
                    ELSE IF status \in NppCaught
                    THEN npp("InstallationError", NppMsgs[slot])
                    ELSE npp(status, <<>>)
          IN /\ dir' = sh.dir
             /\ last' = [op |-> o, k |-> k0 + 1, cmd |-> c.cmd,
                         kind |-> c.kind, proc |-> sh.proc, exc |-> r.exc,
                         ret |-> r.ret, failed |-> f]
             /\ executed' = IF k0 = 0 THEN <<c.cmd>> ELSE Append(executed, c.cmd)
             /\ res' = r1
             /\ ret' = r0
             /\ calls' = IF entered THEN calls + 1 ELSE calls
             /\ dirAtStart' = IF entered THEN dir ELSE dirAtStart
             /\ started' = IF entered THEN <<>>
                           ELSE IF k0 = 0 THEN Append(started, o)
                           ELSE started
             /\ console' = IF entered THEN <<>>
                           ELSE IF slot > 0 /\ status \in {"True", "False"}
                           THEN Append(console, NppPrograms[slot])
                           ELSE console
             /\ op' = IF status = "running" THEN o ELSE "none"
             /\ k' = IF status = "running" THEN k0 + 1 ELSE 0
             /\ slot' = IF slot = 0 \/ status = "running" THEN slot
                        ELSE IF status \in {"True", "False"}
                             /\ slot < Len(NppCalls)
                        THEN slot + 1
                        ELSE 0
             /\ run' = IF r0.op = "pre_install" /\ r0.status = "True"
                       THEN "prepared"
                       ELSE IF r0.op = "cleanup"
                       THEN "none"
                       ELSE IF run = "prepared"
                            /\ r0.op \in Installers \cup {"install_not_ppkd_prog"}
                            /\ r0.status = "InstallationError"
                       THEN "aborted"
                       ELSE run
  /\ UNCHANGED <<text, cls>>

pre_install == Run("pre_install")

install_apt_pkgs == Run("install_apt_pkgs")

install_snap_pkgs == Run("install_snap_pkgs")

install_brave_browser == Run("install_brave_browser")

install_docker == Run("install_docker")

install_fish_shell == Run("install_fish_shell")

install_google_chrome == Run("install_google_chrome")

install_poetry == Run("install_poetry")

install_qbittorrent == Run("install_qbittorrent")

cleanup == Run("cleanup")

\* install_not_ppkd_prog is entered: its first try block is due
install_not_ppkd_prog ==
  /\ op = "none"
  /\ slot = 0
  /\ calls < MaxCalls
  /\ slot' = 1
  /\ calls' = calls + 1
  /\ started' = <<>>
  /\ console' = <<>>
  /\ dirAtStart' = dir
  /\ executed' = <<>>
  /\ last' = NoInvocation
  /\ res' = NoResult
  /\ ret' = [op |-> "install_not_ppkd_prog", status |-> "running",
             msg |-> <<>>, slot |-> 0]
  /\ UNCHANGED <<dir, op, k, run, text, cls>>

Next ==
  \/ pre_install
  \/ install_apt_pkgs
  \/ install_snap_pkgs
  \/ install_brave_browser
  \/ install_docker
  \/ install_fish_shell
  \/ install_google_chrome
  \/ install_poetry
  \/ install_qbittorrent
  \/ install_not_ppkd_prog
  \/ cleanup

Spec == Init /\ [][Next]_vars

\* ------------------------------------------------- classifier specification
\* the apt check applied to one stderr text: the classifier and the test of
\* its result
Classify ==
  /\ ~ cls.done
  /\ cls' = [done |-> TRUE, result |-> car_apt_warning(text),
             failed |-> IsFailure("apt", <<<<>>, text>>)]
  /\ UNCHANGED <<text, mainVars>>

\* another apt command writes another stderr text
NextText ==
  /\ cls.done
  /\ \E t \in Texts : text' = t
  /\ cls' = NoClassification
  /\ UNCHANGED mainVars

InitClassifier ==
  /\ dir = FALSE
  /\ calls = 0
  /\ op = "none"
  /\ k = 0
  /\ executed = <<>>
  /\ slot = 0
  /\ started = <<>>
  /\ console = <<>>
  /\ last = NoInvocation
  /\ res = NoResult
  /\ ret = NoResult
  /\ dirAtStart = FALSE
  /\ run = "none"
  /\ text \in Texts
  /\ cls = NoClassification

NextClassifier ==
  \/ Classify
  \/ NextText

SpecClassifier == InitClassifier /\ [][NextClassifier]_vars

\* ------------------------------------------------------------ properties
\* positions i..j of text t are one of its lines (j = i - 1: an empty line)
LineAt(t, i, j) ==
  /\ i <= Len(t)
  /\ j >= i - 1
  /\ i = 1 \/ t[i - 1] = LF
  /\ j = Len(t) \/ t[j + 1] = LF
  /\ \A h \in i..j : t[h] # LF

\* a benign substring lies within positions i..j of t
BenignWithin(t, i, j) ==
  \E n \in DOMAIN BenignList : \E a \in i..j :
    /\ a + Len(BenignList[n]) - 1 <= j
    /\ \A h \in 1..Len(BenignList[n]) : t[a + h - 1] = BenignList[n][h]

EveryLineBenign(t) ==
  \A i \in 1..Len(t) : \A j \in 0..Len(t) :
    LineAt(t, i, j) => BenignWithin(t, i, j)

\* a completed command whose stderr is a real failure: non-empty and, for an
\* apt command, not made of benign warnings only
RealFailure(l) ==
  /\ l.op # "none"
  /\ l.proc.completed
  /\ l.proc.errs # <<>>
  /\ l.kind = "apt" => ~ EveryLineBenign(l.proc.errs)

\* C1: in every installer, a command that ends in a real failure makes the
\* installer raise InstallationError at once: it runs no further command and
\* does not return True.
C1_FirstFailureAborts ==
  (last.op \in Installers /\ RealFailure(last))
    => (res.op = last.op /\ res.status = "InstallationError" /\ op = "none")

\* C2: in every operation (pre_install, the installers, cleanup), a command
\* that ends in a real failure ends the operation with an InstallationError
\* that carries a message; no operation returns a value or goes on instead.
C2_FailureIsInstallationError ==
  RealFailure(last)
    => (res.op = last.op /\ res.status = "InstallationError"
        /\ res.msg # <<>>)

\* C3: install_not_ppkd_prog returns True only after calling the installer
\* of each of the six announced programs once, in order, and
\* "Successfully installed qbittorrent." is printed only after
\* install_qbittorrent ran.
C3_AllSixInstallersRun ==
  /\ (ret.op = "install_not_ppkd_prog" /\ ret.status = "True")
       => started = <<"install_brave_browser", "install_docker",
                      "install_fish_shell", "install_google_chrome",
                      "install_poetry", "install_qbittorrent">>
  /\ (\E n \in DOMAIN console : console[n] = "qbittorrent")
       => (\E n \in DOMAIN started : started[n] = "install_qbittorrent")

\* C4: a stderr text whose every line holds a benign substring is classified
\* as empty, and the apt check on it finds no failure.
C4_BenignTextIsNoFailure ==
  (cls.done /\ EveryLineBenign(text))
    => (cls.result = <<>> /\ ~ cls.failed)

C4_Witness ==
  /\ cls.done
  /\ Len(text) >= 3
  /\ \E i \in 1..Len(text) : text[i] = LF
  /\ EveryLineBenign(text)
  /\ cls.result = <<>>
  /\ ~ cls.failed

C6_CommReturnsPairOrTimesOut ==
  last.op # "none"
    => /\ last.proc.completed
            => (last.exc = "none"
                /\ last.ret = <<last.proc.out, last.proc.errs>>)
       /\ ~ last.proc.completed
            => (last.exc = "TimeoutError" /\ last.ret = <<>>
                /\ res.status = "TimeoutError")
       /\ (last.exc = "none") # (last.ret = <<>>)

C6_Witness ==
  /\ last.op # "none"
  /\ last.proc.completed
  /\ last.proc.code = 1
  /\ last.proc.errs # <<>>
  /\ last.proc.out # <<>>
  /\ last.ret = <<last.proc.out, last.proc.errs>>

\* C7: whether a completed command counts as failed depends on its stderr
\* only: a non-apt command failed iff its stderr is non-empty, an apt command
\* iff its stderr is non-empty and not only benign warnings; a command that
\* did not fail never ends its operation abnormally, whatever its exit code
\* and stdout.
C7_FailureSignalIsStderr ==
  (last.op # "none" /\ last.proc.completed)
    => /\ last.failed
            = (IF last.kind = "apt"
               THEN last.proc.errs # <<>>
                    /\ ~ EveryLineBenign(last.proc.errs)
               ELSE last.proc.errs # <<>>)
       /\ ~ last.failed => res.status \in {"running", "True"}

C7_Witness ==
  /\ last.op # "none"
  /\ last.proc.completed
  /\ last.proc.code = 1
  /\ last.proc.out # <<>>
  /\ last.proc.errs = <<>>
  /\ ~ last.failed
  /\ res.status = "running"

\* C8: when the installer of program k ends inside install_not_ppkd_prog
\* with an InstallationError or a timeout failure, install_not_ppkd_prog
\* raises the InstallationError that names program k, having started the
\* installers of programs 1..k only.
ProgramInstallers ==
  <<"install_brave_browser", "install_docker", "install_fish_shell",
    "install_google_chrome", "install_poetry", "install_qbittorrent">>

ProgramMessages ==
  << <<"Brave browser was not installed">>, <<"Docker was not installed.">>,
     <<"Fish shell was not installed.">>, <<"Google Chrome was not installed.">>,
     <<"Poetry was not installed.">>, <<"qbittorrent was not installed.">> >>

C8_FailureNamesProgram ==
  (res.slot > 0
   /\ res.status \in {"InstallationError", "TimeoutError", "TimeoutExpired"})
    => /\ ret.op = "install_not_ppkd_prog"
       /\ ret.status = "InstallationError"
       /\ ret.msg = ProgramMessages[res.slot]
       /\ res.op = ProgramInstallers[res.slot]
       /\ Len(started) = res.slot

\* C9: install_snap_pkgs runs one snap install per entry of list_snap_pkgs,
\* the --classic entries first, each group in list order; it stops at the
\* first entry whose stderr is non-empty and returns True only after the
\* last entry.
SnapExpected ==
  << <<"sublime-text", " ", "--classic">>, <<"code", " ", "--classic">>,
     <<"bitwarden">>, <<"jdownloader2">>, <<"libreoffice">>,
     <<"signal-desktop">>, <<"spotify">>, <<"vlc">> >>

C9_SnapOrderAndStop ==
  res.op = "install_snap_pkgs"
    => /\ Len(executed) <= Len(SnapExpected)
       /\ \A n \in DOMAIN executed :
            executed[n] = <<"snap install", " ">> \o SnapExpected[n]
       /\ Len(executed) = last.k
       /\ res.status = "True" => Len(executed) = Len(SnapExpected)
       /\ res.status = "running" => last.proc.errs = <<>>
       /\ (last.proc.completed /\ last.proc.errs # <<>>)
            => (res.status = "InstallationError" /\ op = "none")
       /\ DOMAIN list_snap_pkgs = DOMAIN SnapExpected
       /\ \A n \in DOMAIN list_snap_pkgs :
            Cardinality({m \in DOMAIN SnapExpected :
                           SnapExpected[m] = list_snap_pkgs[n]}) = 1

C9_Witness ==
  /\ res.op = "install_snap_pkgs"
  /\ res.status = "InstallationError"
  /\ Len(executed) = 3
  /\ executed[3] = <<"snap install", " ", "bitwarden">>

\* C10: the downloads directory exists once pre_install returned True and as
\* long as no cleanup was called, whether or not an installer raised in
\* between; no installer creates or removes it; it is absent once cleanup
\* returned True; and pre_install entered while it exists does not return
\* True: it raises InstallationError when its mkdir completes.
Ended == op = "none" /\ slot = 0 /\ ret.status \notin {"none", "running"}

C10_DownloadsDirLifecycle ==
  /\ (Ended /\ ret.op = "pre_install" /\ ret.status = "True") => dir
  /\ (Ended /\ ret.op = "cleanup" /\ ret.status = "True") => ~ dir
  /\ ret.op \in Installers \cup {"install_not_ppkd_prog"} => dir = dirAtStart
  /\ run \in {"prepared", "aborted"} => dir
  /\ (Ended /\ ret.op = "pre_install" /\ dirAtStart)
       => /\ dir
          /\ ret.status # "True"
          /\ last.proc.completed => ret.status = "InstallationError"

C10_Witness ==
  /\ Ended
  /\ run = "aborted"
  /\ ret.op = "pre_install"
  /\ ret.status = "InstallationError"
  /\ dirAtStart
  /\ dir

====
